---- MODULE Spec2Model ----
(***************************************************************************)
(* Model of rocket-okapi/src/gen.rs: the OpenApiGenerator that collects    *)
(* operations keyed by (path, method), resolves JSON schemas through a     *)
(* schemars SchemaGenerator and assembles the OpenApi document.            *)
(*                                                                         *)
(* Strings that the code inspects character by character (operation ids)  *)
(* are sequences of one-character strings.  Rust Option values are the     *)
(* records None and Some(x); enum values are records with a tag.           *)
(***************************************************************************)
EXTENDS Integers, Sequences, FiniteSets, TLC

VARIABLES operations, schema_generator, pc, panic, doc, schema_result, registered

vars == <<operations, schema_generator, pc, panic, doc, schema_result, registered>>

(* ---------------------------- bounds ---------------------------------- *)

\* largest number of operations held by the registry
MaxOps == 2

\* longest operation identifier enumerated over IdAlphabet
MaxIdLen == 3

(* ---------------------------- values ---------------------------------- *)

None == [tag |-> "None"]

Some(x) == [tag |-> "Some", val |-> x]

\* rocket::http::Method
Method == {"Get", "Put", "Post", "Delete", "Options", "Head", "Trace", "Connect", "Patch"}

\* the fields of okapi::openapi3::PathItem that hold an Operation
Slots == {"get", "put", "post", "delete", "options", "head", "patch", "trace"}

\* PathItem::default()
DefaultPathItem == [s \in Slots |-> None]

\* SchemaObject::default(): no constraint at all
DefaultSchemaObject == [instance_type |-> None, properties |-> {}, not |-> None]

\* schemars::schema::Schema
SchemaRef(r) == [tag |-> "Ref", reference |-> r]

SchemaObj(s) == [tag |-> "Object", object |-> s]

SchemaBool(b) == [tag |-> "Bool", bool |-> b]

\* okapi::openapi3::RefOr<SchemaObject>
RefOrRef(r) == [tag |-> "Ref", reference |-> r]

RefOrObject(s) == [tag |-> "Object", object |-> s]

Ok(v) == [tag |-> "Ok", val |-> v]

Err == [tag |-> "Err"]

(* ------------------------- input domains ------------------------------ *)

Paths == {"/a", "/b"}

\* names of the definitions the schema generator can produce
Names == {"Item", "Tag", "Opaque"}

\* the types json_schema::<T>() is asked about
Types == {"Value", "Never", "i32", "Item", "Tag", "Opaque", "Bad"}

IdAlphabet == {":", "a"}

RECURSIVE SeqsUpTo(_, _)
SeqsUpTo(S, n) ==
    IF n = 0 THEN {<<>>}
    ELSE LET shorter == SeqsUpTo(S, n - 1)
         IN  shorter \cup {Append(s, c) : s \in {t \in shorter : Len(t) = n - 1}, c \in S}

IdExamples ==
    { <<":", ":", "f", "o", "o", ":", ":", "b", "a", "r">>,
      <<":", "b", "a", "r">>,
      <<"f", "o", "o">>,
      <<"f", "o", "o", ":", ":", "b", "a", "r">> }

\* operation identifiers a caller may pass
IdInputs == {None} \cup {Some(s) : s \in SeqsUpTo(IdAlphabet, MaxIdLen) \cup IdExamples}

\* okapi::openapi3::Operation: the identifier, a summary and the schema of
\* its response (None when it references no schema)
Op(id, summary, responses) == [operation_id |-> id, summary |-> summary, responses |-> responses]

OpInputs ==
    { Op(None, "s1", None),
      Op(Some(<<":", ":", "a">>), "s2", Some(RefOrRef("Item"))) }

\* crate::OperationInfo
OperationInfo(path, method, operation) == [path |-> path, method |-> method, operation |-> operation]

Key(info) == <<info.path, info.method>>

Keys == Paths \X Method

(* ------------------------ string helpers ------------------------------ *)

\* str::trim_start_matches(c): drop every leading occurrence of c
RECURSIVE trim_start_matches(_, _)
trim_start_matches(s, c) ==
    IF s # <<>> /\ Head(s) = c THEN trim_start_matches(Tail(s), c) ELSE s

\* str::replace(from, to): replace the non-overlapping matches of from,
\* found scanning left to right
RECURSIVE replace(_, _, _)
replace(s, from, to) ==
    IF Len(s) < Len(from) THEN s
    ELSE IF SubSeq(s, 1, Len(from)) = from
         THEN to \o replace(SubSeq(s, Len(from) + 1, Len(s)), from, to)
         ELSE <<Head(s)>> \o replace(Tail(s), from, to)

\* a normalization that strips one leading ':' only
normalize_strip_one(op_id) ==
    replace(IF op_id # <<>> /\ Head(op_id) = ":" THEN Tail(op_id) ELSE op_id, <<":", ":">>, <<"_">>)

\* gen.rs line 52
normalize_operation_id(op_id) == replace(trim_start_matches(op_id, ":"), <<":", ":">>, <<"_">>)

(* --------------------------- add_operation ---------------------------- *)

\* gen.rs lines 50-53: the operation as it is stored
normalized(operation) ==
    IF operation.operation_id.tag = "Some"
    THEN [operation EXCEPT !.operation_id = Some(normalize_operation_id(operation.operation_id.val))]
    ELSE operation

\* an add_operation that inserts over an occupied entry
add_operation_overwrite(ops, op) ==
    [operations |-> [ops EXCEPT ![Key(op)] = normalized(op.operation)], panic |-> None]

\* an add_operation that refuses the method without a slot
add_operation_rejects_connect(ops, op) ==
    IF ops[Key(op)] # None \/ op.method = "Connect"
    THEN [operations |-> ops,
          panic |-> [tag |-> "duplicate", method |-> op.method, path |-> op.path]]
    ELSE [operations |-> [ops EXCEPT ![Key(op)] = normalized(op.operation)],
          panic |-> None]

\* gen.rs lines 49-64 on a registry ops: the registry afterwards and the
\* panic raised, if any
add_operation(ops, op) ==
    LET stored == normalized(op.operation)
    IN  IF ops[Key(op)] # None
        THEN [operations |-> ops,
              panic |-> [tag |-> "duplicate", method |-> op.method, path |-> op.path]]
        ELSE [operations |-> [ops EXCEPT ![Key(op)] = stored],
              panic |-> None]

Occupied(ops) == {k \in Keys : ops[k] # None}

(* ---------------------------- json_schema ----------------------------- *)

\* the definition schemars records for a referenceable type
DefinitionOf(name) ==
    CASE name = "Item" ->
            SchemaObj([instance_type |-> Some("object"), properties |-> {"Tag"}, not |-> None])
      [] name = "Tag" ->
            SchemaObj([instance_type |-> Some("string"), properties |-> {}, not |-> None])
      [] name = "Opaque" -> SchemaBool(TRUE)

\* the names a referenceable type brings into the definitions table: its
\* own and those of the referenceable types it mentions
Defines(type) ==
    CASE type = "Item" -> {"Item", "Tag"}
      [] type = "Tag" -> {"Tag"}
      [] type = "Opaque" -> {"Opaque"}
      [] OTHER -> {}

\* SchemaGenerator::subschema_for::<T>() of schemars on a definitions table
\* defs: a type that is not referenceable yields its schema inline (a
\* boolean or an object); a referenceable type is entered in the table,
\* with the referenceable types it mentions, unless already there, and
\* yields a reference to its name; a type schemars cannot describe yields
\* an error
subschema_for(defs, type) ==
    CASE type = "Bad" -> [definitions |-> defs, schema |-> Err]
      [] type = "Value" -> [definitions |-> defs, schema |-> Ok(SchemaBool(TRUE))]
      [] type = "Never" -> [definitions |-> defs, schema |-> Ok(SchemaBool(FALSE))]
      [] type = "i32" ->
            [definitions |-> defs,
             schema |-> Ok(SchemaObj([instance_type |-> Some("integer"), properties |-> {}, not |-> None]))]
      [] OTHER ->
            [definitions |->
                [n \in Names |-> IF n \in Defines(type) /\ defs[n] = None
                                 THEN DefinitionOf(n) ELSE defs[n]],
             schema |-> Ok(SchemaRef(type))]

\* a conversion that renders both booleans as the unconstrained object
get_ref_or_object_no_negation(schema) ==
    CASE schema.tag = "Ref" -> RefOrRef(schema.reference)
      [] schema.tag = "Object" -> RefOrObject(schema.object)
      [] schema.tag = "Bool" -> RefOrObject(DefaultSchemaObject)

\* gen.rs lines 95-105
get_ref_or_object(schema) ==
    CASE schema.tag = "Ref" -> RefOrRef(schema.reference)
      [] schema.tag = "Object" -> RefOrObject(schema.object)
      [] schema.tag = "Bool" /\ schema.bool -> RefOrObject(DefaultSchemaObject)
      [] schema.tag = "Bool" /\ ~schema.bool ->
            RefOrObject([DefaultSchemaObject EXCEPT !.not = Some(SchemaObj(DefaultSchemaObject))])

\* gen.rs lines 66-69: the generator afterwards, the schema the generator
\* produced and the value returned
json_schema(defs, type) ==
    LET r == subschema_for(defs, type)
    IN  [definitions |-> r.definitions,
         schema |-> r.schema,
         ret |-> IF r.schema.tag = "Err" THEN Err ELSE Ok(get_ref_or_object(r.schema.val))]

(* ---------------------------- into_openapi ---------------------------- *)

\* a match that sends HEAD to the slot of GET
match_method_head_as_get(method) ==
    CASE method = "Get" -> "get"
      [] method = "Put" -> "put"
      [] method = "Post" -> "post"
      [] method = "Delete" -> "delete"
      [] method = "Options" -> "options"
      [] method = "Head" -> "get"
      [] method = "Patch" -> "patch"
      [] method = "Trace" -> "trace"
      [] method = "Connect" -> "return"

\* a match with the arms of PUT and POST exchanged
match_method_put_post_swapped(method) ==
    CASE method = "Get" -> "get"
      [] method = "Put" -> "post"
      [] method = "Post" -> "put"
      [] method = "Delete" -> "delete"
      [] method = "Options" -> "options"
      [] method = "Head" -> "head"
      [] method = "Patch" -> "patch"
      [] method = "Trace" -> "trace"
      [] method = "Connect" -> "return"

\* a match that sends TRACE to the slot of OPTIONS
match_method_trace_as_options(method) ==
    CASE method = "Get" -> "get"
      [] method = "Put" -> "put"
      [] method = "Post" -> "post"
      [] method = "Delete" -> "delete"
      [] method = "Options" -> "options"
      [] method = "Head" -> "head"
      [] method = "Patch" -> "patch"
      [] method = "Trace" -> "options"
      [] method = "Connect" -> "return"

\* gen.rs lines 109-120: the field of the path item the match selects,
\* "return" for the arm that returns
match_method(method) ==
    CASE method = "Get" -> "get"
      [] method = "Put" -> "put"
      [] method = "Post" -> "post"
      [] method = "Delete" -> "delete"
      [] method = "Options" -> "options"
      [] method = "Head" -> "head"
      [] method = "Patch" -> "patch"
      [] method = "Trace" -> "trace"
      [] method = "Connect" -> "return"

\* gen.rs lines 107-123: the path item afterwards, and whether the
\* assertion of line 121 failed
set_operation(path_item, method, op) ==
    LET option == match_method(method)
    IN  IF option = "return"
        THEN [path_item |-> path_item, panicked |-> FALSE]
        ELSE IF path_item[option] # None
             THEN [path_item |-> path_item, panicked |-> TRUE]
             ELSE [path_item |-> [path_item EXCEPT ![option] = op], panicked |-> FALSE]

\* paths.insert(path, PathItem::default()): a fresh path item every time
entry_insert_default(paths, path) == [paths EXCEPT ![path] = DefaultPathItem]

\* gen.rs line 81: paths.entry(path).or_default()
entry_or_default(paths, path) ==
    IF paths[path] = None THEN [paths EXCEPT ![path] = DefaultPathItem] ELSE paths

\* gen.rs lines 79-84: the loop over the registry, visiting its keys in
\* the given order
RECURSIVE for_operations(_, _, _)
for_operations(ops, order, acc) ==
    IF order = <<>> \/ acc.panicked THEN acc
    ELSE LET path == Head(order)[1]
             method == Head(order)[2]
             paths == entry_or_default(acc.paths, path)
             r == set_operation(paths[path], method, ops[Head(order)])
         IN  for_operations(ops, Tail(order),
                            [paths |-> [paths EXCEPT ![path] = r.path_item],
                             panicked |-> r.panicked])

\* Map::new()
EmptyPaths == [p \in Paths |-> None]

\* the iteration orders of a HashMap holding the keys ks
IterOrders(ks) ==
    {o \in [1..Cardinality(ks) -> ks] : \A i, j \in 1..Cardinality(ks) : i # j => o[i] # o[j]}

\* the definitions table embedded as the generator holds it
into_definitions_unconverted(defs) == defs

\* gen.rs line 87: the definitions table, each entry converted
into_definitions(defs) ==
    [n \in Names |-> IF defs[n] = None THEN None ELSE get_ref_or_object(defs[n])]

\* gen.rs lines 75-92, with the HashMap iterated in the given order
into_openapi(ops, defs, order) ==
    LET r == for_operations(ops, order, [paths |-> EmptyPaths, panicked |-> FALSE])
    IN  [panicked |-> r.panicked,
         openapi |-> [openapi |-> "3.0.0",
                      paths |-> r.paths,
                      components |-> [schemas |-> into_definitions(defs)]]]

(* ------------------------------ actions ------------------------------- *)

Init ==
    /\ operations = [k \in Keys |-> None]
    /\ schema_generator = [n \in Names |-> None]
    /\ pc = "open"
    /\ panic = None
    /\ doc = None
    /\ schema_result = [schema |-> None, ret |-> None]
    /\ registered = {}

AddOperation(op) ==
    /\ pc = "open"
    /\ Cardinality(Occupied(operations)) < MaxOps \/ operations[Key(op)] # None
    /\ LET r == add_operation(operations, op)
       IN  /\ operations' = r.operations
           /\ panic' = r.panic
           /\ pc' = IF r.panic = None THEN "open" ELSE "panicked"
           /\ registered' = IF r.panic = None THEN registered \cup {op} ELSE registered
    /\ UNCHANGED <<schema_generator, doc, schema_result>>

JsonSchema(type) ==
    /\ pc = "open"
    /\ LET r == json_schema(schema_generator, type)
       IN  /\ schema_generator' = r.definitions
           /\ schema_result' = [schema |-> r.schema, ret |-> r.ret]
    /\ UNCHANGED <<operations, pc, panic, doc, registered>>

IntoOpenapi ==
    /\ pc = "open"
    /\ \E order \in IterOrders(Occupied(operations)) :
          LET r == into_openapi(operations, schema_generator, order)
          IN  IF r.panicked
              THEN /\ pc' = "panicked"
                   /\ panic' = [tag |-> "assert"]
                   /\ doc' = doc
              ELSE /\ pc' = "done"
                   /\ panic' = panic
                   /\ doc' = r.openapi
    /\ UNCHANGED <<operations, schema_generator, schema_result, registered>>

\* the callers build an operation's schema with json_schema: a reference
\* in it names a definition the generator already holds
Resolved(operation) ==
    operation.responses.tag = "Some" /\ operation.responses.val.tag = "Ref"
        => schema_generator[operation.responses.val.reference] # None

\* the registry and assembly: every path and method, two operations, one
\* referenceable type
Next ==
    \/ \E p \in Paths, m \in Method, o \in OpInputs :
          Resolved(o) /\ AddOperation(OperationInfo(p, m, o))
    \/ JsonSchema("Item")
    \/ IntoOpenapi

Spec == Init /\ [][Next]_vars

\* operation identifiers: one path, two methods, every identifier
IdOps == {Op(id, "s1", None) : id \in IdInputs}

NextIds ==
    \/ \E m \in {"Get", "Post"}, o \in IdOps :
          Resolved(o) /\ AddOperation(OperationInfo("/a", m, o))
    \/ IntoOpenapi

SpecIds == Init /\ [][NextIds]_vars

\* schema resolution: every type, one path, two methods
NextSchema ==
    \/ \E m \in {"Get", "Connect"}, o \in OpInputs :
          Resolved(o) /\ AddOperation(OperationInfo("/a", m, o))
    \/ \E t \in Types : JsonSchema(t)
    \/ IntoOpenapi

SpecSchema == Init /\ [][NextSchema]_vars

(* ------------------- vocabulary of the properties --------------------- *)

\* the PathItem slot named like the method; CONNECT has none
SlotNameOf(method) ==
    CASE method = "Get" -> "get"
      [] method = "Put" -> "put"
      [] method = "Post" -> "post"
      [] method = "Delete" -> "delete"
      [] method = "Options" -> "options"
      [] method = "Head" -> "head"
      [] method = "Patch" -> "patch"
      [] method = "Trace" -> "trace"
      [] OTHER -> "none"

NoPaths == [paths |-> EmptyPaths, panicked |-> FALSE]

\* the path item that set_operation receives for key k once the keys of
\* order have been visited
PathItemBefore(order, k) ==
    entry_or_default(for_operations(operations, order, NoPaths).paths, k[1])[k[1]]

\* the slots of the assembled document that hold an operation
FilledSlots ==
    {ps \in Paths \X Slots : doc.paths[ps[1]] # None /\ doc.paths[ps[1]][ps[2]] # None}

\* the registered descriptors that have a slot
Slotted == {d \in registered : d.method # "Connect"}

\* what slot s of the path item of p must hold, going by the registered
\* descriptors that have a slot
ExpectedSlot(p, s) ==
    IF \E d \in Slotted : d.path = p /\ SlotNameOf(d.method) = s
    THEN normalized((CHOOSE d \in Slotted : d.path = p /\ SlotNameOf(d.method) = s).operation)
    ELSE None

AssemblyCompletes ==
    /\ panic.tag # "assert"
    /\ pc = "open" =>
          \A o \in IterOrders(Occupied(operations)) :
              ~into_openapi(operations, schema_generator, o).panicked

Unconstrained(object) ==
    object.instance_type = None /\ object.properties = {} /\ object.not = None

(* ------------------------------- C1 ----------------------------------- *)

\* C1 as stated: with pairwise distinct keys, assembly completes and every
\* registered operation is in the slot of paths[path] that matches its
\* method.
C1_EveryOperationInItsSlot ==
    /\ AssemblyCompletes
    /\ pc = "done" =>
          \A d \in registered :
              /\ doc.paths[d.path] # None
              /\ \E s \in Slots :
                    s = SlotNameOf(d.method) /\ doc.paths[d.path][s] = normalized(d.operation)

\* C1 amended: with pairwise distinct keys, assembly completes, every
\* registered operation whose method is not CONNECT is in the slot of
\* paths[path] named like its method, and no other slot of the document is
\* filled (an operation registered with CONNECT is in no slot).
C1_EverySlottedOperationInItsSlot ==
    /\ AssemblyCompletes
    /\ Cardinality(registered) = Cardinality(Occupied(operations))
    /\ pc = "done" =>
          /\ \A d \in Slotted :
                /\ doc.paths[d.path] # None
                /\ doc.paths[d.path][SlotNameOf(d.method)] = normalized(d.operation)
          /\ Cardinality(FilledSlots) = Cardinality(Slotted)

C1_Witness ==
    /\ pc = "done"
    /\ \E d, e \in Slotted : d.path = e.path /\ d.method # e.method

(* ------------------------------- C2 ----------------------------------- *)

\* C2: add_operation on a key that is already registered panics, naming
\* the method and the path, for every method and every operation content,
\* and the registry keeps the earlier descriptor as it was stored.
C2_DuplicateIsFatal ==
    /\ pc = "open" =>
          \A k \in Occupied(operations), o \in OpInputs :
              LET r == add_operation(operations, OperationInfo(k[1], k[2], o))
              IN  /\ r.panic = [tag |-> "duplicate", method |-> k[2], path |-> k[1]]
                  /\ r.operations = operations
    /\ panic.tag = "duplicate" =>
          pc = "panicked" /\ operations[<<panic.path, panic.method>>] # None
    /\ \A d \in registered : operations[Key(d)] = normalized(d.operation)
    /\ Cardinality(registered) = Cardinality(Occupied(operations))

C2_Witness ==
    /\ pc = "panicked"
    /\ panic.tag = "duplicate"
    /\ panic.method = "Get"
    /\ Cardinality(registered) >= 2

(* ------------------------------- C3 ----------------------------------- *)

\* C3: for each of the eight methods with a slot, set_operation writes the
\* operation into the slot named like the method and leaves the other
\* slots of the path item as they were; so does the assembled document.
C3_SlotNamedLikeMethod ==
    /\ pc = "open" =>
          \A k \in Occupied(operations) :
              k[2] # "Connect" =>
                 \A o \in IterOrders(Occupied(operations) \ {k}) :
                     LET before == PathItemBefore(o, k)
                         r == set_operation(before, k[2], operations[k])
                     IN  /\ ~r.panicked
                         /\ r.path_item[SlotNameOf(k[2])] = operations[k]
                         /\ \A s \in Slots \ {SlotNameOf(k[2])} : r.path_item[s] = before[s]
    /\ pc = "done" =>
          \A k \in Occupied(operations) :
              k[2] # "Connect" => doc.paths[k[1]][SlotNameOf(k[2])] = operations[k]

C3_Witness ==
    /\ pc = "done"
    /\ \E p \in Paths :
          /\ doc.paths[p] # None
          /\ doc.paths[p]["put"] # None
          /\ doc.paths[p]["post"] # None
          /\ doc.paths[p]["put"] # doc.paths[p]["post"]
          /\ doc.paths[p]["get"] = None

(* ------------------------------- C4 ----------------------------------- *)

\* the slots of every assembled path item are those of the registered
\* descriptors whose method has a slot: CONNECT fills none
ConnectFillsNoSlot ==
    pc = "done" =>
       \A p \in Paths :
           doc.paths[p] # None => \A s \in Slots : doc.paths[p][s] = ExpectedSlot(p, s)

\* C4 as stated: registering a CONNECT descriptor never raises an error,
\* in any sequence of registrations followed by assembly, and its
\* operation is in no slot of the assembled path item.
C4_ConnectNeverFails ==
    /\ panic.tag = "duplicate" => panic.method # "Connect"
    /\ AssemblyCompletes
    /\ ConnectFillsNoSlot

\* C4 amended: registering a CONNECT descriptor whose (path, CONNECT) key
\* is not yet registered never raises an error, assembly of a registry
\* that holds CONNECT descriptors never fails, and the CONNECT operation
\* is in no slot of the assembled path item.
C4_FreshConnectNeverFails ==
    /\ pc = "open" =>
          \A p \in Paths, o \in OpInputs :
              operations[<<p, "Connect">>] = None =>
                 LET r == add_operation(operations, OperationInfo(p, "Connect", o))
                 IN  r.panic = None /\ r.operations[<<p, "Connect">>] = normalized(o)
    /\ AssemblyCompletes
    /\ ConnectFillsNoSlot

C4_Witness ==
    /\ pc = "done"
    /\ \E d \in registered, e \in Slotted : d.method = "Connect" /\ d.path = e.path

(* ------------------------------- C5 ----------------------------------- *)

\* the registry without its CONNECT descriptors
WithoutConnect(ops) == [k \in Keys |-> IF k[2] = "Connect" THEN None ELSE ops[k]]

\* C5: the assembled document is the document assembled from the same
\* registrations without the CONNECT descriptors, so a path registered
\* only with CONNECT has no entry in paths.
C5_ConnectLeavesNoEntry ==
    pc = "done" =>
       /\ \A o \in IterOrders(Occupied(WithoutConnect(operations))) :
              doc = into_openapi(WithoutConnect(operations), schema_generator, o).openapi
       /\ \A p \in Paths :
              (\A d \in registered : d.path = p => d.method = "Connect") => doc.paths[p] = None

(* ------------------------------- C6 ----------------------------------- *)

Chars(s) == {s[i] : i \in 1..Len(s)}

HasDoubleColon(s) == \E i \in 1..(Len(s) - 1) : s[i] = ":" /\ s[i + 1] = ":"

IsName(c) == c \notin {":", "_"}

\* C6: the identifier add_operation stores is the given one with its
\* leading ':' stripped and every "::" replaced by "_": "::foo::bar" is
\* stored as "foo_bar", ":bar" as "bar", an identifier without ':' as it
\* is, and an absent identifier stays absent.
C6_StoredIdNormalized ==
    \A d \in registered :
        LET given == d.operation.operation_id
            stored == operations[Key(d)].operation_id
        IN  /\ given.tag = "None" => stored.tag = "None"
            /\ given.tag = "Some" =>
                  /\ stored.tag = "Some"
                  /\ given.val = <<":", ":", "f", "o", "o", ":", ":", "b", "a", "r">>
                        => stored.val = <<"f", "o", "o", "_", "b", "a", "r">>
                  /\ given.val = <<":", "b", "a", "r">> => stored.val = <<"b", "a", "r">>
                  /\ ":" \notin Chars(given.val) => stored.val = given.val
                  /\ stored.val # <<>> => Head(stored.val) # ":"
                  /\ ~HasDoubleColon(stored.val)
                  /\ SelectSeq(stored.val, IsName) = SelectSeq(given.val, IsName)

C6_Witness ==
    /\ \E d \in registered :
          /\ d.operation.operation_id = Some(<<":", ":", "f", "o", "o", ":", ":", "b", "a", "r">>)
          /\ operations[Key(d)].operation_id = Some(<<"f", "o", "o", "_", "b", "a", "r">>)
    /\ \E d \in registered :
          /\ d.operation.operation_id = None
          /\ operations[Key(d)].operation_id = None

(* ------------------------------- C7 ----------------------------------- *)

\* C7: json_schema returns a reference for a reference, the same object
\* for an object, the object without constraints for "accept anything",
\* and for "accept nothing" the object whose only constraint is the
\* negation of the object without constraints; never a raw boolean.
C7_SchemaConversion ==
    LET s == schema_result.schema
        r == schema_result.ret
    IN  /\ s.tag = "Err" => r.tag = "Err"
        /\ s.tag = "Ok" =>
              /\ r.tag = "Ok"
              /\ r.val.tag \in {"Ref", "Object"}
              /\ s.val.tag = "Ref" =>
                    r.val.tag = "Ref" /\ r.val.reference = s.val.reference
              /\ s.val.tag = "Object" =>
                    r.val.tag = "Object" /\ r.val.object = s.val.object
              /\ s.val = SchemaBool(TRUE) =>
                    r.val.tag = "Object" /\ Unconstrained(r.val.object)
              /\ s.val = SchemaBool(FALSE) =>
                    /\ r.val.tag = "Object"
                    /\ r.val.object.instance_type = None
                    /\ r.val.object.properties = {}
                    /\ r.val.object.not.tag = "Some"
                    /\ r.val.object.not.val.tag = "Object"
                    /\ Unconstrained(r.val.object.not.val.object)

C7_Witness ==
    /\ schema_result.schema = Ok(SchemaBool(FALSE))
    /\ schema_result.ret.tag = "Ok"
    /\ schema_generator["Item"] # None

(* ------------------------------- C8 ----------------------------------- *)

\* the names an entry of components.schemas refers to
RefsOf(entry) ==
    IF entry.tag = "Object" THEN entry.object.properties
    ELSE IF entry.tag = "Ref" THEN {entry.reference}
    ELSE {}

\* the names the registered operations refer to, directly
DirectRefs ==
    UNION {RefsOf(d.operation.responses.val) : d \in {e \in registered : e.operation.responses.tag = "Some"}}

\* one more step along the references of the definitions
RefStep(S) == S \cup UNION {RefsOf(DefinitionOf(n)) : n \in S}

\* the names the registered operations refer to, directly or transitively
ReferencedNames == RefStep(RefStep(RefStep(DirectRefs)))

SchemaNames == {n \in Names : doc.components.schemas[n] # None}

C9_TargetSlotEmpty ==
    /\ panic.tag # "assert"
    /\ pc = "open" =>
          \A o \in IterOrders(Occupied(operations)) :
              \A i \in 1..Len(o) :
                  LET before == PathItemBefore(SubSeq(o, 1, i - 1), o[i])
                      r == set_operation(before, o[i][2], operations[o[i]])
                  IN  /\ ~r.panicked
                      /\ \A s \in Slots : before[s] # None => r.path_item[s] = before[s]

C9_Witness ==
    /\ pc = "done"
    /\ \E p \in Paths :
          /\ doc.paths[p] # None
          /\ doc.paths[p]["patch"] # None
          /\ doc.paths[p]["trace"] # None

(* ------------------------------- C10 ---------------------------------- *)

EmptyRegistry == [k \in Keys |-> None]

\* add_operation called for the descriptors of a sequence, in its order
RECURSIVE add_all(_, _)
add_all(acc, infos) ==
    IF infos = <<>> \/ acc.panic # None THEN acc
    ELSE add_all(add_operation(acc.operations, Head(infos)), Tail(infos))

\* C10: the registry does not depend on the order of the add_operation
\* calls, the document does not depend on the order in which into_openapi
\* visits the registry, and its version is "3.0.0".
C10_OrderIndependent ==
    /\ pc = "open" =>
          /\ \A infos \in IterOrders(registered) :
                add_all([operations |-> EmptyRegistry, panic |-> None], infos)
                   = [operations |-> operations, panic |-> None]
          /\ \A o1, o2 \in IterOrders(Occupied(operations)) :
                into_openapi(operations, schema_generator, o1)
                   = into_openapi(operations, schema_generator, o2)
    /\ pc = "done" =>
          /\ doc.openapi = "3.0.0"
          /\ \A o \in IterOrders(Occupied(operations)) :
                doc = into_openapi(operations, schema_generator, o).openapi

C10_Witness ==
    /\ pc = "done"
    /\ doc.components.schemas["Item"] # None
    /\ \E d, e \in Slotted : d.path = e.path /\ d.method # e.method /\ d.operation # e.operation

====
